---- MODULE Spec2Model ----
(***************************************************************************)
(* Model of the moderation bot of src/main.py: the settings store          *)
(* (data.json mirrored in memory), the pattern matcher, the authorization  *)
(* checks, the admin-panel handlers and the message-moderation handler.    *)
(* Every handler is a coroutine; a handler step of the model runs the      *)
(* handler's code from one suspension point (an awaited platform call) to  *)
(* the next, and the handlers of different updates interleave at these     *)
(* points only.                                                            *)
(* Text is a sequence of one-character strings.                            *)
(***************************************************************************)
EXTENDS Integers, Sequences, FiniteSets, TLC

VARIABLES
    data,     \* the in-memory store: chat id -> settings (main.py:68)
    refs,     \* object identity of each chat's list-valued settings
    file,     \* data.json: [state: absent | corrupt | valid, content]
    init_data,\* the store as loaded at start-up (never changes)
    saves,    \* number of save_data calls made by the last handler step
    tasks,    \* the handlers in flight or just finished
    slots,    \* how many handlers the dispatcher runs at a time (never changes)
    toggles   \* per chat and flag: is the number of authorized presses odd

vars == <<data, refs, file, init_data, saves, tasks, slots, toggles>>

(* ------------------------------ bounds -------------------------------- *)
\* the number of update handlers the dispatcher runs concurrently
MaxTasks == 1

(* ----------------------------- characters ----------------------------- *)
LowerSeq == <<"a","b","c","d","e","f","g","h","i","j","k","l","m",
              "n","o","p","q","r","s","t","u","v","w","x","y","z">>
UpperSeq == <<"A","B","C","D","E","F","G","H","I","J","K","L","M",
              "N","O","P","Q","R","S","T","U","V","W","X","Y","Z">>
Digits == {"0","1","2","3","4","5","6","7","8","9"}

Range(s) == {s[i] : i \in DOMAIN s}

\* str.lower() on one character
Lower(c) ==
    IF \E i \in DOMAIN UpperSeq : UpperSeq[i] = c
    THEN LowerSeq[CHOOSE i \in DOMAIN UpperSeq : UpperSeq[i] = c]
    ELSE c

LowerText(s) == [i \in DOMAIN s |-> Lower(s[i])]

\* [a-z] under re.IGNORECASE
IsAlpha(c) == Lower(c) \in Range(LowerSeq)
\* \w
IsWordChar(c) == IsAlpha(c) \/ c \in Digits \/ c = "_"
\* what str.strip() removes
IsSpace(c) == c \in {" ", "\t", "\n"}

IsWordAt(text, i) == i \in 1..Len(text) /\ IsWordChar(text[i])
\* \b at the gap before position p (p = Len+1 is the end of the text)
Boundary(text, p) == IsWordAt(text, p - 1) # IsWordAt(text, p)

\* the literal lit (lower case) occurs in text at position p, ignoring case
LitAt(text, p, lit) ==
    /\ p >= 1
    /\ p + Len(lit) - 1 <= Len(text)
    /\ \A k \in 1..Len(lit) : Lower(text[p + k - 1]) = Lower(lit[k])

\* needle in haystack (Python's substring test)
Contains(haystack, needle) ==
    \E p \in 1..(Len(haystack) + 1) : LitAt(haystack, p, needle) /\
        \A k \in 1..Len(needle) : haystack[p + k - 1] = needle[k]

RECURSIVE LStrip(_)
LStrip(s) == IF s # <<>> /\ IsSpace(Head(s)) THEN LStrip(Tail(s)) ELSE s
RECURSIVE RStrip(_)
RStrip(s) ==
    IF s # <<>> /\ IsSpace(s[Len(s)]) THEN RStrip(SubSeq(s, 1, Len(s) - 1)) ELSE s
\* str.strip()
Strip(s) == RStrip(LStrip(s))

(* --------------------------- pattern matcher --------------------------- *)
\* one compiled pattern: the escaped word, with \b on both sides or without
Pattern(w) == [word |-> w, bounded |-> ~(" " \in Range(w))]

MatchesAt(patt, text, p) ==
    /\ LitAt(text, p, patt.word)
    /\ patt.bounded => Boundary(text, p) /\ Boundary(text, p + Len(patt.word))

\* patt.search(text): the leftmost position of a match, 0 for None
Search(patt, text) ==
    IF \E p \in 1..(Len(text) + 1) : MatchesAt(patt, text, p)
    THEN CHOOSE p \in 1..(Len(text) + 1) :
            /\ MatchesAt(patt, text, p)
            /\ \A q \in 1..(p - 1) : ~MatchesAt(patt, text, q)
    ELSE 0

RECURSIVE compile_patterns(_)
compile_patterns(words) ==
    IF words = <<>> THEN <<>>
    ELSE LET w == Strip(Head(words))
         IN  IF w = <<>> THEN compile_patterns(Tail(words))
             ELSE <<Pattern(w)>> \o compile_patterns(Tail(words))

NoMatch == [found |-> FALSE, match |-> <<>>]

RECURSIVE FirstHit(_, _)
FirstHit(text, patterns) ==
    IF patterns = <<>> THEN NoMatch
    ELSE LET p == Search(Head(patterns), text)
         IN  IF p > 0
             THEN [found |-> TRUE,
                   match |-> SubSeq(text, p, p + Len(Head(patterns).word) - 1)]
             ELSE FirstHit(text, Tail(patterns))

contains_banned(text, patterns) ==
    IF text = <<>> THEN NoMatch ELSE FirstHit(text, patterns)

\* length of the match of \.[a-z]{2,3}(?:/|\b) at p, 0 when it does not match
SuffixLen(text, p) ==
    LET alpha(i) == i \in 1..Len(text) /\ IsAlpha(text[i])
        slash(i) == i \in 1..Len(text) /\ text[i] = "/"
        two      == alpha(p + 1) /\ alpha(p + 2)
        three    == two /\ alpha(p + 3)
    IN  IF ~(p \in 1..Len(text) /\ text[p] = ".") THEN 0
        ELSE IF three /\ slash(p + 4) THEN 5
        ELSE IF three /\ Boundary(text, p + 4) THEN 4
        ELSE IF two /\ slash(p + 3) THEN 4
        ELSE IF two /\ Boundary(text, p + 3) THEN 3
        ELSE 0

\* length of the match of LINK_REGEX at p, alternatives tried in order
LinkLen(text, p) ==
    IF LitAt(text, p, <<"h","t","t","p","s",":","/","/">>) THEN 8
    ELSE IF LitAt(text, p, <<"h","t","t","p",":","/","/">>) THEN 7
    ELSE IF LitAt(text, p, <<"t",".","m","e","/">>) THEN 5
    ELSE IF LitAt(text, p, <<"t","e","l","e","g","r","a","m",".","m","e","/">>) THEN 12
    ELSE IF Boundary(text, p) /\ LitAt(text, p, <<"w","w","w",".">>) THEN 4
    ELSE SuffixLen(text, p)

\* LINK_REGEX.search(text)
LINK_REGEX(text) ==
    IF \E p \in 1..Len(text) : LinkLen(text, p) > 0
    THEN LET p == CHOOSE q \in 1..Len(text) :
                     /\ LinkLen(text, q) > 0
                     /\ \A r \in 1..(q - 1) : LinkLen(text, r) = 0
         IN  [found |-> TRUE, match |-> SubSeq(text, p, p + LinkLen(text, p) - 1)]
    ELSE NoMatch

\* mutant of contains_link: the allowlist is looked up in the matched link
contains_link_UrlOnly(text, allowed) ==
    IF text = <<>> THEN NoMatch
    ELSE LET m == LINK_REGEX(text)
         IN  IF ~m.found THEN NoMatch
             ELSE IF \E i \in DOMAIN allowed :
                        Contains(LowerText(m.match), LowerText(allowed[i]))
                  THEN NoMatch
                  ELSE m

contains_link(text, allowed) ==
    IF text = <<>> THEN NoMatch
    ELSE LET m == LINK_REGEX(text)
         IN  IF ~m.found THEN NoMatch
             ELSE IF \E i \in DOMAIN allowed :
                        Contains(LowerText(text), LowerText(allowed[i]))
                  THEN NoMatch
                  ELSE m

(* ------------------------------ the world ------------------------------ *)
OWNER_ID == "7322925570"
Admin    == "1001"     \* a platform administrator of the group chats
Member   == "1002"     \* an ordinary member
Users    == {OWNER_ID, Admin, Member}

\* chat ids; message.chat.type of each
Chats == {-1001, -1002, 77}
ChatType(chat) ==
    CASE chat = -1001 -> "supergroup"
      [] chat = -1002 -> "group"
      [] OTHER        -> "private"

\* who writes in a chat: everybody in the supergroup, one user in the small
\* group and in the private chat
Members(chat) == IF ChatType(chat) = "supergroup" THEN Users ELSE {Member}

\* who opens the panel and presses its buttons
PanelUsers == {OWNER_ID, Member}

\* the chats the panel is used in
PanelChats == {-1001, -1002}

\* str(chat.id), the key of the chat in the store
str(chat) ==
    CASE chat = -1001 -> "-1001"
      [] chat = -1002 -> "-1002"
      [] OTHER        -> "77"

\* what the platform answers to get_chat_member(...).is_chat_admin()
PlatformAdmins == {Admin}

\* from_user.username, "" when the account has no public handle
Handle(user) ==
    CASE user = OWNER_ID -> "owner"
      [] user = Admin    -> "adm"
      [] OTHER           -> ""
FullName(user) == "Member Name"

\* datetime.utcnow() as seen by a handler
Clock == {1000}

ban == <<"b","a","n">>
xco == <<"x",".","c","o">>
hi  == <<"h","i">>

\* incoming messages: text and caption ("" when absent)
Msg(text, caption) == [text |-> text, caption |-> caption]
Messages == { Msg(hi, <<>>),
              Msg(<<"B","a","n">> \o <<" ">> \o xco, <<>>),
              Msg(<<>>, xco) }

\* callback data of the panel's buttons (main.py:126-131)
Buttons == {"toggle_enabled", "toggle_mode", "set_actions", "edit_words",
            "edit_links", "manage_admins"}

(* ---------------------------- settings store --------------------------- *)
Settings(bw, al, lp, aw, sw, alk, sl, en, mo, ba) ==
    [banned_words |-> bw, allowed_links |-> al, link_protection |-> lp,
     action_words |-> aw, mute_seconds_words |-> sw,
     action_links |-> alk, mute_seconds_links |-> sl,
     enabled |-> en, mode |-> mo, bot_admins |-> ba]

DEFAULTS == Settings(<<>>, <<>>, TRUE, "mute", 600, "mute", 600, TRUE, "admins", <<>>)

ListFields == {"banned_words", "allowed_links", "bot_admins"}

\* identity of a list object: the dict that first held it, and the key
ObjectsOf(owner) == [k \in ListFields |-> <<owner, k>>]

\* dict.get(key, default)
Get(settings, key, default) ==
    IF key \in DOMAIN settings THEN settings[key] ELSE default

\* d[key] = value on a dict
Put(d, key, value) ==
    [k \in DOMAIN d \cup {key} |-> IF k = key THEN value ELSE d[k]]

EmptyDict == [k \in {} |-> FALSE]

Valid(content) == [state |-> "valid", content |-> content]
Absent  == [state |-> "absent", content |-> EmptyDict]
Corrupt == [state |-> "corrupt", content |-> EmptyDict]

\* data.json as the process may find it at start-up
InitFiles ==
    { Absent, Corrupt,
      Valid([k \in {"-1001", "-1002"} |->
               IF k = "-1001"
               THEN Settings(<<ban>>, <<>>, TRUE, "warn", 600, "ban", 30,
                             TRUE, "admins", <<Member>>)
               ELSE Settings(<<ban>>, <<xco>>, TRUE, "mute", 90, "warn", 600,
                             TRUE, "all", <<>>)]),
      Valid([k \in {"-1001", "-1002"} |->
               IF k = "-1001"
               THEN Settings(<<ban>>, <<>>, TRUE, "none", 600, "mute", 45,
                             TRUE, "admins", <<>>)
               ELSE Settings(<<<<" ">>, ban>>, <<>>, TRUE, "kick", 600, "none", 600,
                             FALSE, "admins", <<>>)]),
      Valid([k \in {"-1001", "-1002"} |->
               IF k = "-1001"
               THEN Settings(<<ban>>, <<>>, FALSE, "ban", 600, "mute", 600,
                             TRUE, "admins", <<>>)
               ELSE [banned_words |-> <<ban>>]]) }

load_data(f) == IF f.state = "valid" THEN f.content ELSE EmptyDict

\* the store a handler step works on
Store == [data |-> data, refs |-> refs, file |-> file, saves |-> 0]

\* mutant of save_data: the file is left as it was
save_data_Stale(st) == [st EXCEPT !.saves = @ + 1]

save_data(st) == [st EXCEPT !.file = Valid(st.data), !.saves = @ + 1]

\* mutant of ensure_chat_settings: the new entry is not saved
ensure_chat_settings_NoSave(st, chat_id) ==
    IF chat_id \notin DOMAIN st.data
    THEN [st EXCEPT !.data = Put(@, chat_id, DEFAULTS),
                    !.refs = Put(@, chat_id, ObjectsOf("DEFAULTS"))]
    ELSE st

\* mutant of ensure_chat_settings: the entry is set to the defaults each time
ensure_chat_settings_Reset(st, chat_id) ==
    save_data([st EXCEPT !.data = Put(@, chat_id, DEFAULTS),
                         !.refs = Put(@, chat_id, ObjectsOf("DEFAULTS"))])

\* lines 70-74
ensure_chat_settings(st, chat_id) ==
    IF chat_id \notin DOMAIN st.data
    THEN save_data([st EXCEPT !.data = Put(@, chat_id, DEFAULTS),
                              !.refs = Put(@, chat_id, ObjectsOf("DEFAULTS"))])
    ELSE st

\* mutant of SetItem: the assignment is made on the settings as they were
\* loaded, not on the dict that is in the store
SetItem_OnLoadedCopy(st, chat_id, key, value) ==
    [st EXCEPT !.data = Put(@, chat_id,
        Put(IF chat_id \in DOMAIN init_data THEN init_data[chat_id] ELSE DEFAULTS,
            key, value))]

\* mutant of SetItem: the assignment is made in every chat's settings
SetItem_AllChats(st, chat_id, key, value) ==
    [st EXCEPT !.data = [k \in DOMAIN st.data |-> Put(st.data[k], key, value)]]

\* settings[key] = value on the dict ensure_chat_settings returned
SetItem(st, chat_id, key, value) ==
    [st EXCEPT !.data = Put(@, chat_id, Put(st.data[chat_id], key, value))]

\* mutant of is_bot_admin: the gate lets everybody pass
is_bot_admin_Anyone(st, chat_id, user_id) == TRUE

is_bot_admin(st, chat_id, user_id) ==
    LET settings == ensure_chat_settings(st, chat_id).data[chat_id]
    IN  user_id \in Range(Get(settings, "bot_admins", <<>>)) \/ user_id = OWNER_ID

Commit(st) ==
    /\ data' = st.data
    /\ refs' = st.refs
    /\ file' = st.file
    /\ saves' = st.saves
    /\ UNCHANGED <<init_data, slots>>

StoreUntouched ==
    /\ saves' = 0
    /\ UNCHANGED <<data, refs, file, init_data, slots, toggles>>

\* no button has been pressed
NoToggles == [chat \in PanelChats |-> [enabled |-> FALSE, mode |-> FALSE]]

\* one more authorized press of the flag's button in the chat
Pressed(chat, flag) == [toggles EXCEPT ![chat][flag] = ~@]

Init ==
    /\ file \in InitFiles
    /\ data = load_data(file)
    /\ refs = [k \in DOMAIN data |-> ObjectsOf(k)]
    /\ init_data = data
    /\ saves = 0
    /\ tasks = {}
    /\ slots = MaxTasks
    /\ toggles = NoToggles

(* ------------------------------- handlers ------------------------------ *)
NoNote == [what |-> "-", username |-> "-", reason |-> "-", amount |-> 0, unit |-> "-"]

\* a handler at its entry: the update it handles and its locals
NewTask(kind, chat, user, msg) ==
    [kind |-> kind, chat |-> chat, user |-> user, msg |-> msg,
     pc |-> "start",          \* the platform call awaited, or "done"
     enabled |-> "-",         \* what line 175 read
     mode |-> "-",            \* what line 179 read
     is_admin |-> "-",        \* what is_user_admin returned
     is_banned |-> FALSE, found_link |-> FALSE,
     action |-> "-", mute_seconds |-> 0, reason |-> "-",
     until_date |-> 0,
     note |-> NoNote,         \* the text handed to send_message / reply / answer
     calls |-> <<>>,          \* platform calls issued, in order
     failed |-> {}]           \* those of them whose exception the handler caught

NoMsg == Msg(<<>>, <<>>)

Done(t) == [t EXCEPT !.pc = "done"]
\* the handler issues a platform call and is suspended until it returns
Await(t, call) == [t EXCEPT !.pc = call, !.calls = Append(@, call)]
\* the awaited call has returned, or raised into the handler's try/except
Returned(t, ok) == IF ok THEN t ELSE [t EXCEPT !.failed = @ \cup {t.pc}]

\* message.text or message.caption or ""
TextOf(msg) ==
    IF msg.text # <<>> THEN msg.text
    ELSE IF msg.caption # <<>> THEN msg.caption
    ELSE <<>>

\* mutant of Moderated: the chat type is not looked at
Moderated_Any(chat) == TRUE

\* line 170: the chat types whose messages are moderated
Moderated(chat) == ChatType(chat) \in {"group", "supergroup"}

\* mutant of IsEnabled: the flag is not consulted
IsEnabled_Always(settings) == TRUE

\* line 175
IsEnabled(settings) == Get(settings, "enabled", TRUE)

\* mutant of ExemptsAdmins: the mode is not consulted, everybody is checked
ExemptsAdmins_Never(settings) == FALSE

\* line 179
ExemptsAdmins(settings) == Get(settings, "mode", "admins") = "admins"

\* mutant of LookupResult: a lookup that raised counts as admin
LookupResult_FailureIsAdmin(t, ok) == IF ok THEN t.user \in PlatformAdmins ELSE TRUE

\* lines 112-116: the answer of is_user_admin once get_chat_member returned
LookupResult(t, ok) == IF ok THEN t.user \in PlatformAdmins ELSE FALSE

\* mutant of Check: the enabled flag is read again before the text is checked
Check_RereadsEnabled(t, settings) ==
    LET text == TextOf(t.msg)
        patterns == compile_patterns(Get(settings, "banned_words", <<>>))
        is_banned == contains_banned(text, patterns).found
        found_link == IF Get(settings, "link_protection", TRUE)
                      THEN contains_link(text, Get(settings, "allowed_links", <<>>)).found
                      ELSE FALSE
        t1 == [t EXCEPT !.is_banned = is_banned, !.found_link = found_link]
    IN  IF ~Get(settings, "enabled", TRUE) THEN Done(t)
        ELSE IF ~is_banned /\ ~found_link THEN Done(t1)
        ELSE Await(t1, "delete_message")

\* mutant of Check: the notification is posted at once, nothing is deleted
Check_NotifiesFirst(t, settings) ==
    LET text == TextOf(t.msg)
        patterns == compile_patterns(Get(settings, "banned_words", <<>>))
        is_banned == contains_banned(text, patterns).found
        found_link == IF Get(settings, "link_protection", TRUE)
                      THEN contains_link(text, Get(settings, "allowed_links", <<>>)).found
                      ELSE FALSE
        t1 == [t EXCEPT !.is_banned = is_banned, !.found_link = found_link]
    IN  IF ~is_banned /\ ~found_link THEN Done(t1)
        ELSE Await(t1, "send_message")

\* lines 183-196: check the text, delete the message when it violates
Check(t, settings) ==
    LET text == TextOf(t.msg)
        patterns == compile_patterns(Get(settings, "banned_words", <<>>))
        is_banned == contains_banned(text, patterns).found
        found_link == IF Get(settings, "link_protection", TRUE)
                      THEN contains_link(text, Get(settings, "allowed_links", <<>>)).found
                      ELSE FALSE
        t1 == [t EXCEPT !.is_banned = is_banned, !.found_link = found_link]
    IN  IF ~is_banned /\ ~found_link THEN Done(t1)
        ELSE Await(t1, "delete_message")

\* mutant of SelectAction: the link branch is tested first
SelectAction_LinkFirst(settings, is_banned, found_link) ==
    IF found_link
    THEN [action |-> Get(settings, "action_links", "mute"),
          mute_seconds |-> Get(settings, "mute_seconds_links", 600),
          reason |-> "link"]
    ELSE IF is_banned
    THEN [action |-> Get(settings, "action_words", "mute"),
          mute_seconds |-> Get(settings, "mute_seconds_words", 600),
          reason |-> "banned word"]
    ELSE [action |-> "return", mute_seconds |-> 0, reason |-> "-"]

\* lines 201-210
SelectAction(settings, is_banned, found_link) ==
    IF is_banned
    THEN [action |-> Get(settings, "action_words", "mute"),
          mute_seconds |-> Get(settings, "mute_seconds_words", 600),
          reason |-> "banned word"]
    ELSE IF found_link
    THEN [action |-> Get(settings, "action_links", "mute"),
          mute_seconds |-> Get(settings, "mute_seconds_links", 600),
          reason |-> "link"]
    ELSE [action |-> "return", mute_seconds |-> 0, reason |-> "-"]

\* mutant of MinutesText: minutes only from two minutes on
MinutesText_FromTwo(mute_seconds) ==
    LET minutes == mute_seconds \div 60
    IN  IF minutes > 1 THEN [amount |-> minutes, unit |-> "minutes"]
        ELSE [amount |-> mute_seconds, unit |-> "seconds"]

\* lines 212-213
MinutesText(mute_seconds) ==
    LET minutes == mute_seconds \div 60
    IN  IF minutes >= 1 THEN [amount |-> minutes, unit |-> "minutes"]
        ELSE [amount |-> mute_seconds, unit |-> "seconds"]

\* line 198
Username(user) == IF Handle(user) # "" THEN "@" \o Handle(user) ELSE FullName(user)

\* the notification of lines 216, 224, 230
Notification(t, what) ==
    LET mt == MinutesText(t.mute_seconds)
    IN  [what |-> what, username |-> Username(t.user), reason |-> t.reason,
         amount |-> IF what = "mute" THEN mt.amount ELSE 0,
         unit |-> IF what = "mute" THEN mt.unit ELSE "-"]

\* line 218
UntilDate(now, mute_seconds) == now + mute_seconds

\* mutant of Dispatch: a warning also restricts the sender
Dispatch_WarnRestricts(t, settings, now) ==
    LET sel == SelectAction(settings, t.is_banned, t.found_link)
        t1 == [t EXCEPT !.action = sel.action, !.mute_seconds = sel.mute_seconds,
                        !.reason = sel.reason]
    IN  IF sel.action = "return" THEN Done(t)
        ELSE IF sel.action \in {"warn", "mute"}
        THEN Await([t1 EXCEPT !.until_date = UntilDate(now, sel.mute_seconds)],
                   "restrict_chat_member")
        ELSE IF sel.action = "ban"
        THEN Await(t1, "ban_chat_member")
        ELSE Done(t1)

\* lines 198-230 up to the next platform call, once delete_message returned
Dispatch(t, settings, now) ==
    LET sel == SelectAction(settings, t.is_banned, t.found_link)
        t1 == [t EXCEPT !.action = sel.action, !.mute_seconds = sel.mute_seconds,
                        !.reason = sel.reason]
    IN  IF sel.action = "return" THEN Done(t)
        ELSE IF sel.action = "warn"
        THEN Await([t1 EXCEPT !.note = Notification(t1, "warn")], "send_message")
        ELSE IF sel.action = "mute"
        THEN Await([t1 EXCEPT !.until_date = UntilDate(now, sel.mute_seconds)],
                   "restrict_chat_member")
        ELSE IF sel.action = "ban"
        THEN Await(t1, "ban_chat_member")
        ELSE Done(t1)

\* lines 169-181 up to the first platform call
EnterModMessage(t, settings) ==
    LET t1 == [t EXCEPT !.enabled = IF Get(settings, "enabled", TRUE) THEN "yes" ELSE "no"]
        t2 == [t1 EXCEPT !.mode = Get(settings, "mode", "admins")]
    IN  IF ~IsEnabled(settings) THEN Done(t1)
        ELSE IF ExemptsAdmins(settings)
        THEN IF t.user = OWNER_ID THEN Done([t2 EXCEPT !.is_admin = "yes"])
             ELSE Await(t2, "get_chat_member")
        ELSE Check(t2, settings)

\* an update is taken up only while the dispatcher has a free handler slot;
\* two updates with the same content are not in flight together
CanStart(t) ==
    /\ Cardinality(tasks) < slots
    /\ \A u \in tasks : <<u.kind, u.chat, u.user, u.msg>> # <<t.kind, t.chat, t.user, t.msg>>

Replace(t, u) == tasks' = (tasks \ {t}) \cup {u}

\* mod_message, lines 168-196: from the update to the first suspension
StartMessage(chat, user, msg) ==
    LET t == NewTask("message", chat, user, msg)
        st == ensure_chat_settings(Store, str(chat))
    IN  /\ CanStart(t)
        /\ IF ~Moderated(chat)
           THEN /\ tasks' = tasks \cup {Done(t)}
                /\ StoreUntouched
           ELSE /\ tasks' = tasks \cup {EnterModMessage(t, st.data[str(chat)])}
                /\ Commit(st)
                /\ UNCHANGED toggles

\* is_user_admin, lines 112-116, then mod_message lines 180-196
GetChatMemberReturns(t, ok) ==
    /\ t \in tasks /\ t.pc = "get_chat_member"
    /\ IF LookupResult(t, ok)
       THEN Replace(t, Done([t EXCEPT !.is_admin = "yes"]))
       ELSE Replace(t, Check([t EXCEPT !.is_admin = "no"], data[str(t.chat)]))
    /\ StoreUntouched

\* mutant of AfterDelete: no try/except, a delete that raises ends the handler
AfterDelete_NoExcept(t, ok, settings, now) ==
    IF ok THEN Dispatch(t, settings, now) ELSE Done(t)

\* lines 193-196: the try/except around delete_message, then lines 198-230
AfterDelete(t, ok, settings, now) == Dispatch(Returned(t, ok), settings, now)

\* lines 193-230: delete_message returned or raised
DeleteMessageReturns(t, ok, now) ==
    /\ t \in tasks /\ t.pc = "delete_message"
    /\ Replace(t, AfterDelete(t, ok, data[str(t.chat)], now))
    /\ StoreUntouched

\* lines 220-224
RestrictReturns(t, ok) ==
    /\ t \in tasks /\ t.pc = "restrict_chat_member"
    /\ LET t1 == Returned(t, ok)
       IN  Replace(t, Await([t1 EXCEPT !.note = Notification(t1, "mute")], "send_message"))
    /\ StoreUntouched

\* lines 226-230
BanReturns(t, ok) ==
    /\ t \in tasks /\ t.pc = "ban_chat_member"
    /\ LET t1 == Returned(t, ok)
       IN  Replace(t, Await([t1 EXCEPT !.note = Notification(t1, "ban")], "send_message"))
    /\ StoreUntouched

\* the last await of mod_message: the handler ends whether it returns or raises
SendMessageReturns(t, ok) ==
    /\ t \in tasks /\ t.pc = "send_message"
    /\ Replace(t, Done(t))
    /\ StoreUntouched

(* ------------------------------ admin panel ---------------------------- *)
PanelNote(what, reason) == [NoNote EXCEPT !.what = what, !.reason = reason]

\* show_admin_panel, lines 135-140
ShowAdminPanel(chat, user) ==
    LET t == NewTask("admin", chat, user, NoMsg)
        chat_id == str(chat)
        st == ensure_chat_settings(Store, chat_id)
    IN  /\ CanStart(t)
        /\ IF ~is_bot_admin(st, chat_id, user)
           THEN tasks' = tasks \cup {Await([t EXCEPT !.note = PanelNote("rejected", "-")], "reply")}
           ELSE tasks' = tasks \cup {Await([t EXCEPT !.note = PanelNote("panel", "-")], "reply")}
        /\ Commit(st)
        /\ UNCHANGED toggles

ReplyReturns(t, ok) ==
    /\ t \in tasks /\ t.pc = "reply"
    /\ Replace(t, Done(t))
    /\ StoreUntouched

\* line 149
ToggledEnabled(settings) == ~Get(settings, "enabled", TRUE)

\* line 161
ToggledMode(settings) == IF Get(settings, "mode", "admins") = "admins" THEN "all" ELSE "admins"

\* callback_toggle_enabled, lines 143-152
ToggleEnabled(chat, user) ==
    LET t == NewTask("toggle_enabled", chat, user, NoMsg)
        chat_id == str(chat)
        st == ensure_chat_settings(Store, chat_id)
        st2 == save_data(SetItem(st, chat_id, "enabled", ToggledEnabled(st.data[chat_id])))
        status == IF st2.data[chat_id]["enabled"] THEN "on" ELSE "off"
    IN  /\ CanStart(t)
        /\ IF ~is_bot_admin(st, chat_id, user)
           THEN /\ tasks' = tasks \cup {Await([t EXCEPT !.note = PanelNote("rejected", "-")], "answer")}
                /\ Commit(st)
                /\ UNCHANGED toggles
           ELSE /\ tasks' = tasks \cup {Await([t EXCEPT !.note = PanelNote("status", status)], "edit_text")}
                /\ Commit(st2)
                /\ toggles' = Pressed(chat, "enabled")

\* callback_toggle_mode, lines 155-164
ToggleMode(chat, user) ==
    LET t == NewTask("toggle_mode", chat, user, NoMsg)
        chat_id == str(chat)
        st == ensure_chat_settings(Store, chat_id)
        st2 == save_data(SetItem(st, chat_id, "mode", ToggledMode(st.data[chat_id])))
        mode_text == IF st2.data[chat_id]["mode"] = "all" THEN "all" ELSE "users only"
    IN  /\ CanStart(t)
        /\ IF ~is_bot_admin(st, chat_id, user)
           THEN /\ tasks' = tasks \cup {Await([t EXCEPT !.note = PanelNote("rejected", "-")], "answer")}
                /\ Commit(st)
                /\ UNCHANGED toggles
           ELSE /\ tasks' = tasks \cup {Await([t EXCEPT !.note = PanelNote("mode", mode_text)], "edit_text")}
                /\ Commit(st2)
                /\ toggles' = Pressed(chat, "mode")

\* lines 152-153, 164-165: edit_text returned (then answer), or raised
EditTextReturns(t, ok) ==
    /\ t \in tasks /\ t.pc = "edit_text"
    /\ IF ok THEN Replace(t, Await([t EXCEPT !.note = NoNote], "answer"))
       ELSE Replace(t, Done(t))
    /\ StoreUntouched

AnswerReturns(t, ok) ==
    /\ t \in tasks /\ t.pc = "answer"
    /\ Replace(t, Done(t))
    /\ StoreUntouched

\* a button whose callback data no handler is registered for (lines 128-131):
\* the dispatcher drops the update
UnhandledCallback(chat, user, button) ==
    LET t == NewTask(button, chat, user, NoMsg)
    IN  /\ button \notin {"toggle_enabled", "toggle_mode"}
        /\ CanStart(t)
        /\ tasks' = tasks \cup {Done(t)}
        /\ StoreUntouched

\* the dispatcher forgets a handler that has returned
Retire(t) ==
    /\ t \in tasks /\ t.pc = "done"
    /\ tasks' = tasks \ {t}
    /\ StoreUntouched

Next ==
    \/ \E chat \in Chats : \E user \in Members(chat), msg \in Messages : StartMessage(chat, user, msg)
    \/ \E t \in tasks, ok \in BOOLEAN : GetChatMemberReturns(t, ok)
    \/ \E t \in tasks, ok \in BOOLEAN, now \in Clock : DeleteMessageReturns(t, ok, now)
    \/ \E t \in tasks, ok \in BOOLEAN : RestrictReturns(t, ok)
    \/ \E t \in tasks, ok \in BOOLEAN : BanReturns(t, ok)
    \/ \E t \in tasks, ok \in BOOLEAN : SendMessageReturns(t, ok)
    \/ \E chat \in PanelChats, user \in PanelUsers : ShowAdminPanel(chat, user)
    \/ \E t \in tasks, ok \in BOOLEAN : ReplyReturns(t, ok)
    \/ \E chat \in PanelChats, user \in PanelUsers : ToggleEnabled(chat, user)
    \/ \E chat \in PanelChats, user \in PanelUsers : ToggleMode(chat, user)
    \/ \E t \in tasks, ok \in BOOLEAN : EditTextReturns(t, ok)
    \/ \E t \in tasks, ok \in BOOLEAN : AnswerReturns(t, ok)
    \/ \E chat \in PanelChats, user \in PanelUsers, button \in Buttons : UnhandledCallback(chat, user, button)
    \/ \E t \in tasks : Retire(t)

Spec == Init /\ [][Next]_vars

(* ------------------- one handler, many configurations ------------------ *)
\* the sequences over S of length at most n
SeqsUpTo(S, n) == UNION {[1..k -> S] : k \in 0..n}

\* the store loaded from one of the files; updates are handled one at a time
InputInit(files) ==
    /\ file \in files
    /\ data = load_data(file)
    /\ refs = [k \in DOMAIN data |-> ObjectsOf(k)]
    /\ init_data = data
    /\ saves = 0
    /\ tasks = {}
    /\ slots = 1
    /\ toggles = NoToggles

\* a file with the one group -1002, moderating everybody, muting
GroupFile(words, allowed, link_protection, seconds) ==
    Valid([k \in {"-1002"} |->
              Settings(words, allowed, link_protection, "mute", seconds,
                       "mute", seconds, TRUE, "all", <<>>)])

\* banned words without whitespace: a letter and a non-alphanumeric character
MaxWord == 2
Words == (SeqsUpTo({"a", "!"}, MaxWord) \ {<<>>}) \cup {ban}

\* the texts the words are searched in
MaxText == 4
WordTexts ==
    SeqsUpTo({"a", "!", " "}, MaxText)
        \cup {<<"u","r","b","a","n">>, <<"B","A","N">>, <<"a"," ","b","a","n">>}

WordInit == InputInit({GroupFile(<<w>>, <<>>, FALSE, 90) : w \in Words})

WordNext ==
    \/ \E text \in WordTexts : StartMessage(-1002, Member, Msg(text, <<>>))
    \/ \E t \in tasks, ok \in BOOLEAN, now \in Clock : DeleteMessageReturns(t, ok, now)
    \/ \E t \in tasks, ok \in BOOLEAN : RestrictReturns(t, ok)
    \/ \E t \in tasks, ok \in BOOLEAN : SendMessageReturns(t, ok)
    \/ \E t \in tasks : Retire(t)

WordSpec == WordInit /\ [][WordNext]_vars

\* texts with and without a link, and allowlists whose entries differ from
\* the texts in case, are empty, or are not part of any link
MaxLink == 4
LinkTexts ==
    SeqsUpTo({".", "c", "o", "K", " "}, MaxLink)
        \cup { <<"h","t","t","p",":","/","/">>, <<"H","T","T","P","S",":","/","/","k">>,
               <<"T",".","m","e","/">>, <<"w","w","w",".">>, <<"a","w","w","w",".">>,
               <<"t","e","l","e","g","r","a","m",".","m","e","/","c">> }
Allowlists ==
    { <<>>, <<<<"k">>>>, <<<<"C", "O">>>>, <<<<".", "c", "o">>>>, <<<<"o", " ", "K">>>>,
      <<<<>>>>, <<<<"k">>, <<"c">>>> }

LinkInit == InputInit({GroupFile(<<>>, allowed, TRUE, 90) : allowed \in Allowlists})

LinkNext ==
    \/ \E text \in LinkTexts : StartMessage(-1002, Member, Msg(text, <<>>))
    \/ \E t \in tasks, ok \in BOOLEAN, now \in Clock : DeleteMessageReturns(t, ok, now)
    \/ \E t \in tasks, ok \in BOOLEAN : RestrictReturns(t, ok)
    \/ \E t \in tasks, ok \in BOOLEAN : SendMessageReturns(t, ok)
    \/ \E t \in tasks : Retire(t)

LinkSpec == LinkInit /\ [][LinkNext]_vars

\* the mute durations a chat is configured with, in seconds
MaxSeconds == 125
Durations == 0..MaxSeconds \cup {600}

\* datetime.utcnow() at the time of the restrict call
MuteClock == {1000, 2000}

MuteInit == InputInit({GroupFile(<<ban>>, <<>>, FALSE, d) : d \in Durations})

MuteNext ==
    \/ StartMessage(-1002, Member, Msg(ban, <<>>))
    \/ \E t \in tasks, ok \in BOOLEAN, now \in MuteClock : DeleteMessageReturns(t, ok, now)
    \/ \E t \in tasks, ok \in BOOLEAN : RestrictReturns(t, ok)
    \/ \E t \in tasks, ok \in BOOLEAN : SendMessageReturns(t, ok)
    \/ \E t \in tasks : Retire(t)

MuteSpec == MuteInit /\ [][MuteNext]_vars

(* ----------------------- handlers that interleave ---------------------- *)
\* the number of handlers the dispatcher runs at a time when updates overlap
MaxHandlers == 2

\* one supergroup with a banned word, mute for words, ban for links, and the
\* ordinary member made a bot-admin
ConcFile ==
    Valid([k \in {"-1001"} |->
              Settings(<<ban>>, <<>>, TRUE, "mute", 90, "ban", 30,
                       TRUE, "admins", <<Member>>)])

\* a message with a banned word and a link, and one with a link alone
ConcMessages == {Msg(<<"B","a","n">> \o <<" ">> \o xco, <<>>), Msg(<<>>, xco)}

ConcInit ==
    /\ file = ConcFile
    /\ data = load_data(file)
    /\ refs = [k \in DOMAIN data |-> ObjectsOf(k)]
    /\ init_data = data
    /\ saves = 0
    /\ tasks = {}
    /\ slots = MaxHandlers
    /\ toggles = NoToggles

\* messages of the admin and the member and button presses of the owner and the bot-admin
\* in the one chat, handled concurrently
ConcNext ==
    \/ \E user \in {Admin, Member}, msg \in ConcMessages : StartMessage(-1001, user, msg)
    \/ \E t \in tasks, ok \in BOOLEAN : GetChatMemberReturns(t, ok)
    \/ \E t \in tasks, ok \in BOOLEAN, now \in Clock : DeleteMessageReturns(t, ok, now)
    \/ \E t \in tasks, ok \in BOOLEAN : RestrictReturns(t, ok)
    \/ \E t \in tasks, ok \in BOOLEAN : BanReturns(t, ok)
    \/ \E t \in tasks, ok \in BOOLEAN : SendMessageReturns(t, ok)
    \/ \E user \in PanelUsers : ToggleEnabled(-1001, user)
    \/ \E user \in PanelUsers : ToggleMode(-1001, user)
    \/ \E t \in tasks, ok \in BOOLEAN : EditTextReturns(t, ok)
    \/ \E t \in tasks, ok \in BOOLEAN : AnswerReturns(t, ok)
    \/ \E t \in tasks : Retire(t)

ConcSpec == ConcInit /\ [][ConcNext]_vars

\* the update a handler handles
UpdateOf(t) == <<t.kind, t.chat, t.user, t.msg>>

\* a press of a panel button, whichever handler (or none) is registered for it
Press(chat, user, button) ==
    CASE button = "toggle_enabled" -> ToggleEnabled(chat, user)
      [] button = "toggle_mode"    -> ToggleMode(chat, user)
      [] OTHER                     -> UnhandledCallback(chat, user, button)

\* a handler suspended in a call other than the admin lookup is resumed, a
\* returned one is forgotten
HandlerStep ==
    \/ \E t \in tasks, ok \in BOOLEAN, now \in Clock : DeleteMessageReturns(t, ok, now)
    \/ \E t \in tasks, ok \in BOOLEAN : RestrictReturns(t, ok)
    \/ \E t \in tasks, ok \in BOOLEAN : BanReturns(t, ok)
    \/ \E t \in tasks, ok \in BOOLEAN : SendMessageReturns(t, ok)
    \/ \E t \in tasks, ok \in BOOLEAN : ReplyReturns(t, ok)
    \/ \E t \in tasks, ok \in BOOLEAN : EditTextReturns(t, ok)
    \/ \E t \in tasks, ok \in BOOLEAN : AnswerReturns(t, ok)
    \/ \E t \in tasks : Retire(t)

\* no update stays in its admin lookup for ever (a pending lookup stays
\* pending until it returns or raises, so this is its weak fairness)
LookupsReturn ==
    \A chat \in Chats, user \in Users, msg \in Messages :
        []<>(\A t \in tasks :
                UpdateOf(t) = <<"message", chat, user, msg>> => t.pc # "get_chat_member")

\* the event loop runs every handler to its end, and the owner keeps pressing
\* every button of the panel
FairSpec ==
    /\ Spec
    /\ WF_vars(HandlerStep)
    /\ LookupsReturn
    /\ \A b \in Buttons : SF_vars(\E chat \in PanelChats : Press(chat, OWNER_ID, b))

\* ConcSpec where every handler runs to its end and both panel users keep
\* pressing both toggle buttons
ConcFairSpec ==
    /\ ConcSpec
    /\ WF_vars(HandlerStep)
    /\ LookupsReturn
    /\ \A user \in PanelUsers :
          SF_vars(ToggleEnabled(-1001, user)) /\ SF_vars(ToggleMode(-1001, user))

(* ------------------------- reading the handlers ------------------------ *)
Issued(t, call) == \E i \in DOMAIN t.calls : t.calls[i] = call
Count(t, call) == Cardinality({i \in DOMAIN t.calls : t.calls[i] = call})

\* the settings of the chat a handler works in
SettingsOf(t) == data[str(t.chat)]

\* a handler of mod_message for a group or supergroup message
IsModeration(t) == t.kind = "message" /\ Moderated(t.chat)

\* the settings a chat can have: those of the files, and the defaults
AllSettings ==
    {DEFAULTS} \cup UNION {{f.content[k] : k \in DOMAIN f.content} : f \in InitFiles}

\* contains_banned and contains_link on every message and every configured
\* list, computed once
BannedTable ==
    [msg \in Messages |->
        [words \in {Get(x, "banned_words", <<>>) : x \in AllSettings} |->
            contains_banned(TextOf(msg), compile_patterns(words)).found]]

LinkTable ==
    [msg \in Messages |->
        [allowed \in {Get(x, "allowed_links", <<>>) : x \in AllSettings} |->
            contains_link(TextOf(msg), allowed).found]]

\* the text of the message holds a banned word of the chat
HasBannedWord(t) == BannedTable[t.msg][Get(SettingsOf(t), "banned_words", <<>>)]

\* the text holds a link that the chat's allowlist does not suppress
HasLink(t) ==
    /\ Get(SettingsOf(t), "link_protection", TRUE)
    /\ LinkTable[t.msg][Get(SettingsOf(t), "allowed_links", <<>>)]

\* the handler has chosen the action of lines 201-208
Selected(t) == t.action # "-"

(* ------------------------------- C1 ----------------------------------- *)
\* C1: a group message that holds both a banned word and a link the allowlist
\* does not suppress is punished with the word-category action, duration and
\* reason, whatever action_links and mute_seconds_links are.
C1_WordTakesPrecedence ==
    \A t \in tasks :
        IsModeration(t) /\ Selected(t) /\ HasBannedWord(t) /\ HasLink(t) =>
            /\ t.action = Get(SettingsOf(t), "action_words", "mute")
            /\ t.mute_seconds = Get(SettingsOf(t), "mute_seconds_words", 600)
            /\ t.reason = "banned word"
            /\ Issued(t, "send_message") => t.note.reason = "banned word"

\* C1 witness: both matched in a chat whose link action and duration differ
\* from the word ones, and the notification went out for the banned word
C1_Witness ==
    \E t \in tasks :
        /\ IsModeration(t) /\ t.pc = "done" /\ HasBannedWord(t) /\ HasLink(t)
        /\ Get(SettingsOf(t), "action_links", "mute") # Get(SettingsOf(t), "action_words", "mute")
        /\ Get(SettingsOf(t), "mute_seconds_links", 600) # Get(SettingsOf(t), "mute_seconds_words", 600)
        /\ t.action = "warn" /\ t.note.reason = "banned word"

(* ------------------------------- C2 ----------------------------------- *)
\* C2: when mod_message finds the chat disabled, it stops: the handler issues
\* no platform call at all (no admin lookup, delete, restrict, ban or
\* notification), whatever the text.
C2_DisabledStops ==
    \A t \in tasks :
        IsModeration(t) /\ t.enabled = "no" => t.calls = <<>> /\ t.pc = "done"

\* C2 witness: a message with a banned word and a link was handled in a
\* disabled chat
C2_Witness ==
    \E t \in tasks :
        /\ IsModeration(t) /\ t.enabled = "no" /\ t.pc = "done"
        /\ ~Get(SettingsOf(t), "enabled", TRUE)
        /\ HasBannedWord(t) /\ HasLink(t)

(* ----------------------- what a violation calls for -------------------- *)
Violating(t) == HasBannedWord(t) \/ HasLink(t)

\* the action the chat configures for the violation of t's message
ConfiguredAction(t) ==
    IF HasBannedWord(t) THEN Get(SettingsOf(t), "action_words", "mute")
    ELSE Get(SettingsOf(t), "action_links", "mute")

\* the platform calls, in order, that an action stands for
PunishCalls(action) ==
    CASE action = "warn" -> <<"delete_message", "send_message">>
      [] action = "mute" -> <<"delete_message", "restrict_chat_member", "send_message">>
      [] action = "ban"  -> <<"delete_message", "ban_chat_member", "send_message">>
      [] OTHER           -> <<"delete_message">>

\* the calls of a handler after its admin lookup, if it made one
Body(t) ==
    IF t.calls # <<>> /\ t.calls[1] = "get_chat_member" THEN Tail(t.calls) ELSE t.calls

\* nothing was done to the message or to its sender
Untouched(t) ==
    /\ ~Issued(t, "delete_message") /\ ~Issued(t, "restrict_chat_member")
    /\ ~Issued(t, "ban_chat_member") /\ ~Issued(t, "send_message")

\* the settings a chat started with: those of the file, else the defaults
InitialOf(k) == IF k \in DOMAIN init_data THEN init_data[k] ELSE DEFAULTS

\* the handlers that the step takes up
NewTasks == {t \in tasks' : \A u \in tasks : UpdateOf(u) # UpdateOf(t)}

IsPanel(t) == t.kind \in {"admin", "toggle_enabled", "toggle_mode"}

\* the user is neither the owner nor a bot-admin of the chat
Unauthorized(t) ==
    LET k == str(t.chat)
        settings == IF k \in DOMAIN data THEN data[k] ELSE DEFAULTS
    IN  t.user # OWNER_ID /\ t.user \notin Range(Get(settings, "bot_admins", <<>>))

(* ------------------------------- C3 ----------------------------------- *)
\* C3 as stated: in an enabled chat a banned-word message of a platform admin
\* or of the owner is exempt whenever the mode read is 'admins', and is
\* actioned once the mode read is 'all'.
C3_Original ==
    \A t \in tasks :
        IsModeration(t) /\ t.enabled = "yes" /\ HasBannedWord(t)
        /\ t.user \in PlatformAdmins \cup {OWNER_ID} =>
            /\ t.mode = "admins" => Untouched(t)
            /\ t.mode = "all" /\ t.pc = "done" =>
                   Body(t) = PunishCalls(Get(SettingsOf(t), "action_words", "mute"))

C3_Inv ==
    \A t \in tasks :
        IsModeration(t) /\ t.enabled = "yes" /\ HasBannedWord(t) =>
            /\ ( /\ t.mode = "admins"
                 /\ \/ t.user = OWNER_ID
                    \/ t.user \in PlatformAdmins /\ t.is_admin = "yes" )
               => Untouched(t)
            /\ t.mode = "all" =>
                   /\ Issued(t, "delete_message")
                   /\ t.pc = "done" =>
                        /\ t.action = Get(SettingsOf(t), "action_words", "mute")
                        /\ Body(t) = PunishCalls(Get(SettingsOf(t), "action_words", "mute"))

C3_Step ==
    \A t \in NewTasks :
        LET k == str(t.chat)
            before == IF k \in DOMAIN data THEN data[k] ELSE DEFAULTS
        IN  /\ t.kind = "toggle_mode" /\ ~Unauthorized(t)
               /\ Get(before, "mode", "admins") = "admins"
               => data'[k]["mode"] = "all"
            /\ IsModeration(t) /\ t.enabled = "yes"
               => t.mode = Get(data'[k], "mode", "admins")

\* C3 (amended): in an enabled chat a banned-word message is exempt when
\* mod_message reads mode 'admins' and the sender is the owner or a platform
\* admin whose admin lookup succeeds; an authorized toggle_mode press in mode
\* 'admins' sets the mode to 'all', a message taken up afterwards reads that
\* mode, and a message that reads 'all' is deleted and punished with the
\* word-category action, whoever sent it.
C3_Amended == []C3_Inv /\ [][C3_Step]_vars

\* C3 witness: the chat started in mode 'admins', and a banned-word message
\* of the platform admin has been read in mode 'all' and actioned
C3_Witness ==
    \E t \in tasks :
        /\ IsModeration(t) /\ t.user = Admin /\ t.pc = "done" /\ HasBannedWord(t)
        /\ Get(InitialOf(str(t.chat)), "mode", "admins") = "admins"
        /\ t.mode = "all" /\ Issued(t, "delete_message")
        /\ t.action = Get(SettingsOf(t), "action_words", "mute")

(* ------------------------------- C4 ----------------------------------- *)
\* C4 as stated: an unauthorized user's panel command or toggle press is
\* rejected and leaves the store and the file exactly as they were, also for
\* a chat with no entry.
C4_Original ==
    [][\A t \in NewTasks :
          IsPanel(t) /\ Unauthorized(t) =>
              t.note.what = "rejected" /\ data' = data /\ file' = file]_vars

\* C4 (amended): an unauthorized user's panel command or toggle press is
\* rejected and changes no existing settings; store and file stay as they
\* were when the chat has an entry, and when it has none the authorization
\* check inserts the default settings for that chat and rewrites the file.
C4_Amended ==
    [][\A t \in NewTasks :
          IsPanel(t) /\ Unauthorized(t) =>
              LET k == str(t.chat)
              IN  /\ t.note.what = "rejected" /\ t.pc \in {"reply", "answer"}
                  /\ \A j \in DOMAIN data : j \in DOMAIN data' /\ data'[j] = data[j]
                  /\ IF k \in DOMAIN data
                     THEN data' = data /\ file' = file /\ saves' = 0
                     ELSE data' = Put(data, k, DEFAULTS) /\ file' = Valid(data')]_vars

\* C4 witness: a toggle press was just rejected in a chat that has an entry
C4_Witness ==
    \E t \in tasks :
        /\ t.kind = "toggle_enabled" /\ t.note.what = "rejected" /\ t.pc = "answer"
        /\ t.user # OWNER_ID
        /\ t.user \notin Range(Get(SettingsOf(t), "bot_admins", <<>>))
        /\ str(t.chat) \in DOMAIN init_data
        /\ saves = 0 /\ data = init_data

(* ------------------------------- C5 ----------------------------------- *)
\* the handler taken up passed the panel gate and toggles a setting
IsToggle(t) == t.kind \in {"toggle_enabled", "toggle_mode"} /\ t.pc = "edit_text"

\* the handler refers to the chat's settings (ensure_chat_settings is called)
Refers(t) == IsModeration(t) \/ IsPanel(t)

\* the defaults after an authorized press of the kind of t
PressedOn(settings, t) ==
    IF t.kind = "toggle_enabled" THEN Put(settings, "enabled", ~Get(settings, "enabled", TRUE))
    ELSE Put(settings, "mode",
             IF Get(settings, "mode", "admins") = "admins" THEN "all" ELSE "admins")

C5_Step ==
    \A t \in NewTasks :
        Refers(t) =>
            LET k == str(t.chat)
            IN  IF k \notin DOMAIN data
                THEN /\ k \in DOMAIN data'
                     /\ file' = Valid(data')
                     /\ IF IsToggle(t)
                        THEN data'[k] = PressedOn(DEFAULTS, t) /\ saves' = 2
                        ELSE data'[k] = DEFAULTS /\ saves' = 1
                ELSE IF IsToggle(t)
                     THEN saves' = 1
                     ELSE data' = data /\ file' = file /\ saves' = 0

C5_Persisted ==
    \A k \in DOMAIN data :
        file.state = "valid" /\ k \in DOMAIN file.content /\ file.content[k] = data[k]

\* C5: the first reference to a chat without an entry (group message, panel
\* command or button press) inserts the default settings and writes them to
\* the file within the same handler step (an authorized toggle then applies
\* its change to these defaults and saves a second time), so every entry of
\* the store is in the file before another event is processed; a reference
\* to a chat that has an entry returns it unchanged and writes nothing.
C5_LazyDefaults == []C5_Persisted /\ [][C5_Step]_vars

\* C5 witness: a group message has just made the first reference to a chat,
\* and the store and the file both hold the defaults for it
C5_Witness ==
    \E t \in tasks :
        /\ IsModeration(t) /\ saves = 1
        /\ str(t.chat) \notin DOMAIN init_data
        /\ data[str(t.chat)] = DEFAULTS
        /\ file = Valid(data)

(* ------------------------------- C6 ----------------------------------- *)
\* the chats whose entry ensure_chat_settings created in this process
Created == {k \in DOMAIN data : k \notin DOMAIN init_data}

\* C6: for any two chats created by ensure_chat_settings in the same process,
\* no list-valued field (banned_words, allowed_links, bot_admins) of one
\* chat's settings is the same object as the other chat's or as the one of
\* DEFAULTS.
C6_DefaultsNotShared ==
    \A k \in Created : \A f \in ListFields :
        /\ refs[k][f] # ObjectsOf("DEFAULTS")[f]
        /\ \A j \in Created \ {k} : refs[j][f] # refs[k][f]

(* ------------------------------- C7 ----------------------------------- *)
IsPrefix(s, r) == Len(s) <= Len(r) /\ SubSeq(r, 1, Len(s)) = s

\* the handler went on to check the text: nobody was exempted
Checked(t) == t.mode = "all" \/ t.is_admin = "no"

\* C7: for a violating message that is checked in an enabled chat, the calls
\* after the admin lookup are those of the configured action, in order and
\* once each: warn = delete, notification; mute = delete, restrict,
\* notification; ban = delete, ban, notification; 'none' or any other value =
\* the delete alone, with no notification text.
C7_CallsPerAction ==
    \A t \in tasks :
        IsModeration(t) /\ t.enabled = "yes" /\ Checked(t) /\ Violating(t) =>
            /\ IsPrefix(Body(t), PunishCalls(ConfiguredAction(t)))
            /\ t.pc = "done" =>
                 /\ t.action = ConfiguredAction(t)
                 /\ Body(t) = PunishCalls(t.action)
                 /\ t.note.what = IF t.action \in {"warn", "mute", "ban"} THEN t.action ELSE "-"

\* C7 witness: a violating message was handled under an action that is none
\* of warn, mute, ban, and only the delete was issued
C7_Witness ==
    \E t \in tasks :
        /\ IsModeration(t) /\ t.pc = "done" /\ Violating(t)
        /\ t.action = "kick" /\ ConfiguredAction(t) = "kick"
        /\ Body(t) = <<"delete_message">> /\ t.note = NoNote

(* ------------------------------- C8 ----------------------------------- *)
\* C8: delete, restrict and ban are attempted at most once per message; a
\* delete that raises is followed by the selection of the action, a restrict
\* or ban that raises is followed by the notification; and a handler whose
\* configured action is mute or ban ends with the restrict or ban call and
\* the notification issued, whichever of its calls raised.
C8_FailuresDoNotAbort ==
    \A t \in tasks :
        IsModeration(t) =>
            /\ \A c \in {"delete_message", "restrict_chat_member", "ban_chat_member"} :
                   Count(t, c) <= 1
            /\ "delete_message" \in t.failed => Selected(t)
            /\ \A c \in {"restrict_chat_member", "ban_chat_member"} :
                   c \in t.failed => Issued(t, "send_message")
            /\ ( /\ Issued(t, "delete_message") /\ t.pc = "done"
                 /\ ConfiguredAction(t) \in {"mute", "ban"} )
               => /\ Issued(t, IF ConfiguredAction(t) = "mute"
                               THEN "restrict_chat_member" ELSE "ban_chat_member")
                  /\ Issued(t, "send_message")
                  /\ t.note.what = ConfiguredAction(t)

\* C8 witness: the delete and the restrict both raised, and the mute
\* notification was still posted
C8_Witness ==
    \E t \in tasks :
        /\ IsModeration(t) /\ t.pc = "done" /\ t.action = "mute"
        /\ t.failed = {"delete_message", "restrict_chat_member"}
        /\ Issued(t, "send_message") /\ t.note.what = "mute"

(* ------------------------------- C9 ----------------------------------- *)
C9_Inv ==
    \A t \in tasks :
        IsModeration(t) /\ t.enabled = "yes" /\ t.mode = "admins" =>
            /\ t.user = OWNER_ID =>
                   t.calls = <<>> /\ t.is_admin = "yes" /\ t.pc = "done"
            /\ t.user # OWNER_ID =>
                   /\ t.calls[1] = "get_chat_member" /\ Count(t, "get_chat_member") = 1
                   /\ t.user \notin PlatformAdmins /\ t.pc # "get_chat_member"
                      => t.is_admin = "no"
                   /\ t.is_admin = "no" /\ t.pc = "done" =>
                          IF Violating(t)
                          THEN /\ t.action = ConfiguredAction(t)
                               /\ Body(t) = PunishCalls(ConfiguredAction(t))
                          ELSE Body(t) = <<>>

\* the step in which a lookup raises
C9_Step ==
    \A t \in tasks :
        t.pc = "get_chat_member" /\ GetChatMemberReturns(t, FALSE) =>
            \E u \in tasks' :
                /\ UpdateOf(u) = UpdateOf(t) /\ u.is_admin = "no"
                /\ IF Violating(t) THEN u.pc = "delete_message" ELSE u.pc = "done"

\* C9: in mode 'admins' a lookup that raises leaves a sender other than the
\* owner 'not admin': the message is checked and, when violating, deleted and
\* punished with the configured action, as the message of an ordinary member
\* is; the owner's message issues no lookup and no other call.
C9_FailedLookupIsNotAdmin == []C9_Inv /\ [][C9_Step]_vars

\* C9 witness: the lookup of the platform admin raised, and the admin's
\* banned-word message was deleted and the sender punished
C9_Witness ==
    \E t \in tasks :
        /\ IsModeration(t) /\ t.user = Admin /\ t.mode = "admins"
        /\ t.is_admin = "no" /\ t.pc = "done" /\ HasBannedWord(t)
        /\ t.action \in {"warn", "mute", "ban"}
        /\ Body(t) = PunishCalls(t.action)

(* ------------------------------- C10 ---------------------------------- *)
\* some chat's value of the field differs from the one it started with
Changed(f) ==
    \E k \in DOMAIN data : Get(data[k], f, DEFAULTS[f]) # Get(InitialOf(k), f, DEFAULTS[f])

\* C10: by pressing the buttons of the panel an authorized user gets each of
\* the settings changed: enabled, mode, the per-category action and duration,
\* the banned words, the allowlist and the bot-admins each come to differ
\* from their initial value.
C10_AllMutationsReachable ==
    \A f \in {"enabled", "mode", "action_words", "mute_seconds_words",
              "action_links", "mute_seconds_links", "banned_words",
              "allowed_links", "bot_admins"} : <>Changed(f)

\* the two mutations that have a handler
C10_TogglesReachable == <>Changed("enabled") /\ <>Changed("mode")

(* ------------------------------- C11 ---------------------------------- *)
\* the file, read as load_data reads it, holds the store
C11_Mirror == file.state # "corrupt" => load_data(file) = data

\* a step that changes the store saves the whole of it
C11_Step == data' # data => saves' >= 1 /\ file' = Valid(data')

\* C11: from a valid or an absent file on, the content of the file equals the
\* in-memory store between any two handler steps, that is at every suspension
\* point of every handler and between updates; every step that changes the
\* store (an insert of defaults, a toggle) ends with a save of the whole
\* store.
C11_FileMirrorsStore == []C11_Mirror /\ [][C11_Step]_vars

\* C11 witness: a toggle handler is suspended in edit_text, the store differs
\* from the one loaded from a valid file, and the file holds the store
C11_Witness ==
    \E t \in tasks :
        /\ t.kind = "toggle_enabled" /\ t.pc = "edit_text"
        /\ DOMAIN init_data # {} /\ data # init_data
        /\ file = Valid(data)

(* ------------------------------- C12 ---------------------------------- *)
\* the settings a chat has in a store (an entry, else the defaults)
EntryOf(store, k) == IF k \in DOMAIN store THEN store[k] ELSE DEFAULTS

\* the store shows every authorized press made in the chat: a flag differs
\* from its initial value exactly when it was toggled an odd number of times
Reflects(store, chat) ==
    LET now == EntryOf(store, str(chat))
        was == InitialOf(str(chat))
    IN  /\ (Get(now, "enabled", TRUE) # Get(was, "enabled", TRUE)) = toggles[chat].enabled
        /\ (Get(now, "mode", "admins") # Get(was, "mode", "admins")) = toggles[chat].mode

\* an authorized toggle handler that has made its change
Toggled(t) == t.kind \in {"toggle_enabled", "toggle_mode"} /\ t.note.what # "rejected"

\* two authorized presses in one chat have both completed, and the store or
\* the file shows only one of the two
LostUpdate ==
    \E t, u \in tasks :
        /\ t # u /\ t.chat = u.chat /\ Toggled(t) /\ Toggled(u)
        /\ t.pc = "done" /\ u.pc = "done"
        /\ ~Reflects(data, t.chat) \/ ~Reflects(load_data(file), t.chat)

\* C12 as stated: when the handlers of two panel mutations of one chat
\* interleave, a state comes up in which both presses completed and the store
\* (in memory or in the file) reflects only one of them.
C12_Original == <>LostUpdate

\* C12 (amended): no update is lost. Each toggle handler reads, changes and
\* saves the store before its first suspension point, so however the handlers
\* interleave, the store and the file show every authorized press.
C12_Amended ==
    \A chat \in PanelChats :
        /\ Reflects(data, chat)
        /\ file.state # "corrupt" => Reflects(load_data(file), chat)

\* C12 witness: the handlers of two presses of different users are both
\* suspended in edit_text, one having toggled enabled and one mode, and the
\* store and the file show both changes
C12_Witness ==
    \E t, u \in tasks :
        /\ t.kind = "toggle_enabled" /\ u.kind = "toggle_mode" /\ t.chat = u.chat
        /\ t.user # u.user /\ Toggled(t) /\ Toggled(u)
        /\ t.pc = "edit_text" /\ u.pc = "edit_text"
        /\ toggles[t.chat] = [enabled |-> TRUE, mode |-> TRUE]
        /\ data[str(t.chat)]["enabled"] # init_data[str(t.chat)]["enabled"]
        /\ data[str(t.chat)]["mode"] # init_data[str(t.chat)]["mode"]
        /\ file = Valid(data)

(* ------------------------------- C18 ---------------------------------- *)
\* what becomes of a message is fixed by the enabled and mode values its
\* handler read, whatever the store holds by now
C18_Inv ==
    \A t \in tasks :
        IsModeration(t) /\ t.enabled = "yes" =>
            /\ t.mode \in {"admins", "all"}
            /\ t.mode = "admins" /\ t.is_admin = "yes" => Untouched(t)
            /\ Checked(t) /\ Violating(t) =>
                 /\ IsPrefix(Body(t), PunishCalls(ConfiguredAction(t)))
                 /\ t.pc = "done" => Body(t) = PunishCalls(ConfiguredAction(t))

\* a message handler reads enabled and mode in the step that takes it up, and
\* a button press leaves the handlers in flight as they are
C18_Step ==
    \A t \in NewTasks :
        /\ IsModeration(t) =>
               /\ (t.enabled = "yes") = Get(data'[str(t.chat)], "enabled", TRUE)
               /\ t.enabled = "yes" => t.mode = Get(data'[str(t.chat)], "mode", "admins")
        /\ t.kind \in {"toggle_enabled", "toggle_mode"} => tasks \subseteq tasks'

\* C18: whether a message is moderated depends only on the enabled and mode
\* values mod_message read before its first suspension point: a toggle press
\* that interleaves with the admin lookup or the delete call neither cancels
\* nor alters the handling, so the delete and the punishment are issued also
\* when the store already says the chat is disabled.
C18_ReadOnce == []C18_Inv /\ [][C18_Step]_vars

\* C18 witness: the restrict or ban call of a message is pending after its
\* delete, the store and the file say the chat is disabled, and the press
\* that disabled it is still being handled
C18_Witness ==
    \E t, u \in tasks :
        /\ IsModeration(t) /\ t.enabled = "yes" /\ t.is_admin = "no"
        /\ t.pc \in {"restrict_chat_member", "ban_chat_member"}
        /\ Issued(t, "delete_message")
        /\ u.kind = "toggle_enabled" /\ u.chat = t.chat /\ u.pc = "edit_text"
        /\ ~data[str(t.chat)]["enabled"] /\ file = Valid(data)

(* ------------------------------- C14 ---------------------------------- *)
\* w occurs in text at p as a token of its own: whitespace or an end of the
\* text on either side
TokenAt(text, p, w) ==
    /\ LitAt(text, p, w)
    /\ p = 1 \/ IsSpace(text[p - 1])
    /\ p + Len(w) - 1 = Len(text) \/ IsSpace(text[p + Len(w)])

Standalone(text, w) == \E p \in 1..Len(text) : TokenAt(text, p, w)

\* w occurs in text, but nowhere as a token of its own
OnlyEmbedded(text, w) ==
    /\ \E p \in 1..Len(text) : LitAt(text, p, w)
    /\ ~Standalone(text, w)

\* C14: for every banned word without internal whitespace, contains_banned
\* matches every text that holds the word as a standalone token, and does not
\* match a text in which the word occurs only inside a longer token; also for
\* words that begin or end with a non-alphanumeric character.
C14_StandaloneToken ==
    \A t \in tasks :
        IsModeration(t) /\ t.mode = "all" =>
            LET w == Get(SettingsOf(t), "banned_words", <<>>)[1]
                text == TextOf(t.msg)
            IN  /\ Standalone(text, w) => t.is_banned
                /\ OnlyEmbedded(text, w) => ~t.is_banned

\* the part of C14 that the code keeps: a word of letters is matched as a
\* token of its own and not inside a longer word
C14_LettersOnly ==
    \A t \in tasks :
        IsModeration(t) /\ t.mode = "all" =>
            LET w == Get(SettingsOf(t), "banned_words", <<>>)[1]
                text == TextOf(t.msg)
            IN  (\A i \in DOMAIN w : IsAlpha(w[i])) =>
                    /\ Standalone(text, w) => t.is_banned
                    /\ (OnlyEmbedded(text, w) /\ \A i \in DOMAIN text : IsAlpha(text[i]))
                       => ~t.is_banned

(* ------------------------------- C15 ---------------------------------- *)
\* a link token starts at p: a scheme, a Telegram host, www. at a word
\* boundary, or a dot with two or three letters and a slash or a boundary
LinkTokenAt(text, p) ==
    \/ \E lit \in { <<"h","t","t","p",":","/","/">>, <<"h","t","t","p","s",":","/","/">>,
                    <<"t",".","m","e","/">>,
                    <<"t","e","l","e","g","r","a","m",".","m","e","/">> } :
           LitAt(text, p, lit)
    \/ LitAt(text, p, <<"w","w","w",".">>) /\ Boundary(text, p)
    \/ /\ text[p] = "."
       /\ \E n \in {2, 3} :
             /\ p + n <= Len(text)
             /\ \A i \in 1..n : IsAlpha(text[p + i])
             /\ \/ p + n + 1 <= Len(text) /\ text[p + n + 1] = "/"
                \/ Boundary(text, p + n + 1)

LinkToken(text) == \E p \in 1..Len(text) : LinkTokenAt(text, p)

\* the entry occurs somewhere in the text, letters compared without case
OccursCI(text, entry) == \E p \in 1..(Len(text) + 1) : LitAt(text, p, entry)

\* C15: contains_link reports a link exactly when the text holds a link token
\* and no allowlist entry occurs, compared without case, anywhere in the
\* whole text: an entry suppresses the link also when it is no part of it,
\* and with an empty allowlist every link token is reported.
C15_AllowlistAnywhere ==
    \A t \in tasks :
        IsModeration(t) /\ t.mode = "all" =>
            LET text == TextOf(t.msg)
                allowed == Get(SettingsOf(t), "allowed_links", <<>>)
            IN  t.found_link =
                    (LinkToken(text) /\ \A i \in DOMAIN allowed : ~OccursCI(text, allowed[i]))

\* C15 witness: the text holds a link, and the link was suppressed by an
\* entry that occurs in the text in another case and is no part of the link
C15_Witness ==
    \E t \in tasks :
        /\ IsModeration(t) /\ t.mode = "all" /\ ~t.found_link
        /\ LINK_REGEX(TextOf(t.msg)).found
        /\ LET allowed == Get(SettingsOf(t), "allowed_links", <<>>)
           IN  /\ Len(allowed) = 1 /\ allowed[1] # <<>>
               /\ ~Contains(TextOf(t.msg), allowed[1])
               /\ OccursCI(TextOf(t.msg), allowed[1])
               /\ ~OccursCI(LINK_REGEX(TextOf(t.msg)).match, allowed[1])

(* ------------------------------- C13 ---------------------------------- *)
\* the duration in the mute notification
C13_Inv ==
    \A t \in tasks :
        IsModeration(t) /\ t.note.what = "mute" =>
            LET d == Get(SettingsOf(t), "mute_seconds_words", 600)
            IN  /\ d >= 60 => /\ t.note.unit = "minutes"
                              /\ 60 * t.note.amount <= d /\ d < 60 * (t.note.amount + 1)
                /\ d < 60 => t.note.unit = "seconds" /\ t.note.amount = d
                /\ d = 600 => t.note.amount = 10 /\ t.note.unit = "minutes"

\* the until_date handed to restrict_chat_member
C13_Step ==
    \A t \in tasks, ok \in BOOLEAN, now \in MuteClock :
        DeleteMessageReturns(t, ok, now) =>
            \E u \in tasks' :
                /\ u.pc = "restrict_chat_member"
                /\ u.until_date = now + Get(SettingsOf(t), "mute_seconds_words", 600)

\* C13: for every configured mute duration d >= 0 the mute notification shows
\* floor(d/60) minutes exactly when d >= 60 and d seconds when d < 60 (600
\* seconds show as 10 minutes), and the restrict call is given the current
\* time plus d seconds as until_date.
C13_MuteRendering == []C13_Inv /\ [][C13_Step]_vars

\* C13 witness: a mute of 600 seconds was announced as 10 minutes, with the
\* until_date 600 seconds after the time of the call
C13_Witness ==
    \E t \in tasks :
        /\ IsModeration(t) /\ t.pc = "done" /\ t.note.what = "mute"
        /\ Get(SettingsOf(t), "mute_seconds_words", 600) = 600
        /\ t.note.amount = 10 /\ t.note.unit = "minutes"
        /\ t.until_date = 2600

(* ------------------------------- C16 ---------------------------------- *)
\* a handler of mod_message for a message of a chat that is no group
IsOutside(t) == t.kind = "message" /\ ChatType(t.chat) \notin {"group", "supergroup"}

\* what such a handler has done: it returned at once, with no call issued
C16_Inv ==
    \A t \in tasks :
        IsOutside(t) => t.pc = "done" /\ t.calls = <<>> /\ t.note = NoNote

\* what taking up such a message does to the store and to the file
C16_Step ==
    \A t \in NewTasks :
        IsOutside(t) => data' = data /\ refs' = refs /\ file' = file /\ saves' = 0

\* C16: a message of a chat that is neither a group nor a supergroup is
\* ignored by mod_message whatever its text: no store entry is created or
\* changed, nothing is written to the file, and no admin lookup, delete,
\* restrict, ban or notification is issued.
C16_PrivateIgnored == []C16_Inv /\ [][C16_Step]_vars

\* C16 witness: a private message with a link was handled, and the private
\* chat has no entry in the store
C16_Witness ==
    \E t \in tasks :
        /\ IsOutside(t) /\ t.pc = "done"
        /\ LinkTable[t.msg][<<>>]
        /\ str(t.chat) \notin DOMAIN data

(* ------------------------------- C17 ---------------------------------- *)
Punishments == {"restrict_chat_member", "ban_chat_member"}

\* every call of kind a was issued before every call of kind b
Before(t, a, b) ==
    \A i, j \in DOMAIN t.calls : t.calls[i] \in a /\ t.calls[j] \in b => i < j

\* the only call that has not returned yet is the one issued last
OneAwaited(t) ==
    t.pc # "done" /\ t.pc # "start" => t.calls # <<>> /\ t.calls[Len(t.calls)] = t.pc

C17_Inv ==
    \A t \in tasks :
        IsModeration(t) =>
            /\ OneAwaited(t)
            /\ Before(t, {"delete_message"}, Punishments \cup {"send_message"})
            /\ Before(t, Punishments, {"send_message"})
            /\ Issued(t, "send_message") => Issued(t, "delete_message")
            /\ (\E c \in Punishments : Issued(t, c)) => Issued(t, "delete_message")

\* a step issues at most one call of a handler, after those it issued before
C17_Step ==
    \A t \in tasks : \A u \in tasks' :
        UpdateOf(u) = UpdateOf(t) =>
            /\ IsPrefix(t.calls, u.calls)
            /\ Len(u.calls) <= Len(t.calls) + 1
            /\ Len(u.calls) > Len(t.calls) => t.calls # <<>> /\ t.pc = t.calls[Len(t.calls)]

\* C17: for every violating message the calls are made in one order: the
\* delete attempt has returned (or its error was suppressed) before a restrict
\* or ban attempt is made, that attempt has returned before the notification
\* is posted, and no notification is posted for a message for which no delete
\* was attempted.
C17_CallOrder == []C17_Inv /\ [][C17_Step]_vars

\* C17 witness: a handler whose delete and whose restrict both raised has
\* posted its notification after them
C17_Witness ==
    \E t \in tasks :
        /\ IsModeration(t) /\ t.pc = "done"
        /\ Body(t) = <<"delete_message", "restrict_chat_member", "send_message">>
        /\ t.failed = {"delete_message", "restrict_chat_member"}

(* ------------------------------- C19 ---------------------------------- *)
\* the step is one of mod_message: it takes a message up or resumes its handler
MessageStep == \E u \in tasks' \ tasks : u.kind = "message"

\* the chats whose message the step takes up
TakenUp == {str(u.chat) : u \in {t \in NewTasks : IsModeration(t)}}

C19_Step ==
    MessageStep =>
        /\ \A k \in DOMAIN data : k \in DOMAIN data' /\ data'[k] = data[k]
        /\ \A k \in DOMAIN data' \ DOMAIN data : k \in TakenUp /\ data'[k] = DEFAULTS

\* C19: message moderation does not change existing settings: over any
\* sequence of messages handled by mod_message every chat that had a store
\* entry keeps exactly its settings, and the only change mod_message makes to
\* the store is to insert the default settings of a group chat not seen before.
C19_ModerationReadOnly == [][C19_Step]_vars

\* C19 witness: a message was punished in a chat whose settings are not the
\* defaults and are still those of the file
C19_Witness ==
    \E t \in tasks :
        /\ IsModeration(t) /\ t.pc = "done" /\ Issued(t, "send_message")
        /\ str(t.chat) \in DOMAIN init_data
        /\ data[str(t.chat)] = init_data[str(t.chat)]
        /\ data[str(t.chat)] # DEFAULTS

(* ------------------------------- C20 ---------------------------------- *)
\* the settings differ at most in the one field
OnlyField(before, after, field) ==
    /\ DOMAIN after = DOMAIN before \cup {field}
    /\ \A f \in DOMAIN before \ {field} : after[f] = before[f]

\* the flag that an authorized press of the kind of t assigns
FlagOf(t) == IF t.kind = "toggle_enabled" THEN "enabled" ELSE "mode"

\* the store after the step, against the store before it, for a press that
\* passed the gate
ToggleFrame(t) ==
    LET k == str(t.chat)
        before == EntryOf(data, k)
    IN  /\ DOMAIN data' = DOMAIN data \cup {k}
        /\ OnlyField(before, data'[k], FlagOf(t))
        /\ data'[k][FlagOf(t)] # Get(before, FlagOf(t), DEFAULTS[FlagOf(t)])
        /\ t.kind = "toggle_mode" => data'[k]["mode"] \in {"all", "admins"}
        /\ \A other \in DOMAIN data \ {k} : data'[other] = data[other]

C20_Step ==
    /\ \A t \in NewTasks : IsToggle(t) => ToggleFrame(t)
    /\ DOMAIN data \subseteq DOMAIN data'

\* C20: an authorized toggle_enabled press changes only the enabled flag of
\* the chat it was pressed in and an authorized toggle_mode press only that
\* chat's mode, which is 'all' or 'admins' afterwards; every other field of
\* the chat and every other chat's settings stay as they were, and no step
\* removes an entry of the store.
C20_ToggleFrame == [][C20_Step]_vars

\* C20 witness: the mode of one chat was toggled to 'all' by an authorized
\* press while another chat's settings are those of the file
C20_Witness ==
    \E t \in tasks :
        /\ t.kind = "toggle_mode" /\ Issued(t, "edit_text")
        /\ toggles[t.chat].mode
        /\ data[str(t.chat)]["mode"] = "all"
        /\ \E other \in DOMAIN data \ {str(t.chat)} :
               other \in DOMAIN init_data /\ data[other] = init_data[other]
====
